---------------------------- MODULE Spec2Model ----------------------------
(***************************************************************************)
(* smctl-build: dependency graph resolver and build scheduler.             *)
(*                                                                         *)
(* The pure functions (resolve_build_order, resolve_build_levels,          *)
(* collect_deps) are operators, computed the way the code computes them.   *)
(* One invocation of build / build_parallel is a state machine: the main   *)
(* thread's position, the workers of the current level, the shared failure *)
(* flag and the shared results list.                                       *)
(***************************************************************************)
EXTENDS Integers, Sequences, FiniteSets, TLC

(***************************************************************************)
(* Bounds of the model.                                                    *)
(***************************************************************************)
\* repositories in a manifest, when the resolver is checked
MaxRepos == 3
\* depends_on entries in a manifest (all repositories together)
MaxEdges == 3
\* depends_on entries in a manifest, when a build is run on it
MaxBuildEdges == 2

\* repositories without depends_on entries in a manifest, when a build is run
\* on it
MaxRoots == 2
\* repositories in a manifest, when the mutex operations are steps
MaxLockRepos == 2

(***************************************************************************)
(* Names.  A repository of the manifest is named by its position; Ghost    *)
(* is a name no repository has.  None is Option::None.                     *)
(***************************************************************************)
None == "None"
Ghost == "X"
NamePool == <<"A", "B", "C", "D", "E", "F", "G", "H">>

Range(s) == {s[k] : k \in DOMAIN s}

Max(S) == CHOOSE x \in S : \A y \in S : y <= x

\* the names of the first n repositories
Names(n) == {NamePool[k] : k \in 1..n}

\* the names a depends_on entry is drawn from when the resolver is checked
\* on n repositories: their names and the name of no repository
DepNames(n) == Names(n) \cup {Ghost}

\* the depends_on lists of n repositories that hold e entries together,
\* as a sequence of n lists over the names S
RECURSIVE DepLists(_, _, _)
DepLists(n, e, S) ==
    IF n = 0
    THEN IF e = 0 THEN {<<>>} ELSE {}
    ELSE UNION {{Append(rest, last) : rest \in DepLists(n - 1, e - k, S),
                                      last \in [1..k -> S]} : k \in 0..e}

\* RepoConfig: the fields the scheduler reads (name, depends_on)
RepoConfig(name, deps) == [name |-> name, depends_on |-> deps]

\* WorkspaceManifest.repos with n repositories (unique names) and e
\* depends_on entries over the names S
ManifestsOf(n, e, S) ==
    {[k \in 1..n |-> RepoConfig(NamePool[k], dl[k])] : dl \in DepLists(n, e, S)}

\* the manifests the resolver is checked on
Manifests ==
    UNION {ManifestsOf(n, e, DepNames(n)) : n \in 0..MaxRepos, e \in 0..MaxEdges}

\* the manifests a build is run on: a manifest of fewer than MaxRepos
\* repositories can name a repository it does not hold
BuildManifests ==
    {m \in UNION {ManifestsOf(n, e, Names(MaxRepos)) :
                     n \in 0..MaxRepos, e \in 0..MaxBuildEdges} :
        Cardinality({k \in DOMAIN m : m[k].depends_on = <<>>}) <= MaxRoots}

VARIABLES
    manifest,       \* WorkspaceManifest.repos: the sequence of RepoConfig
    out,            \* the last resolver call and what it returned
    args,           \* build_inner's repo_name, run_tests, clean_first, parallel
    pc,             \* where the calling thread of build_inner is
    repos_to_build, \* build_inner: the working order (indices into repos)
    levels,         \* build_parallel_impl: the levels of the full graph
    target_repos,   \* build_parallel_impl: Option<HashSet<String>>
    i,              \* the position in repos_to_build, or the level being run
    phase,          \* build_inner: the next step on repos_to_build[i]
    results,        \* Vec<BuildResult>, behind the results mutex when parallel
    failed,         \* the failure flag, behind its mutex
    workers,        \* the threads of the current level: repository -> state
    ran,            \* history: <<repository, phase>> for each command started, and
                    \* <<repository, "clean_err">> for a clean command that failed
    ret             \* what build / build_parallel returned

(***************************************************************************)
(* WorkspaceManifest::find_repo and the lookup of resolve_build_order.     *)
(***************************************************************************)
\* repos.iter().position(|r| &r.name == dep_name): 0 stands for None
position(repos, name) ==
    IF \E k \in DOMAIN repos : repos[k].name = name
    THEN CHOOSE k \in DOMAIN repos :
            /\ repos[k].name = name
            /\ \A j \in DOMAIN repos : repos[j].name = name => k <= j
    ELSE 0

\* self.repos.iter().find(|r| r.name == name): the index, 0 for None
find_repo(repos, name) == position(repos, name)

(***************************************************************************)
(* resolve_build_order: depth-first search with the markers visited and    *)
(* in_stack, the order is the post-order.  The state threaded through the  *)
(* recursion is st = [visited, in_stack, order, err]; err is the name in   *)
(* the cycle error, None while there is none ("?" returns at once).        *)
(***************************************************************************)
RECURSIVE dfs(_, _, _), dfs_deps(_, _, _, _)

\* a plausible slip: the node is pushed before its dependencies are visited
dfs_preorder(repos, idx, st) ==
    IF st.err # None THEN st
    ELSE IF st.in_stack[idx] THEN [st EXCEPT !.err = repos[idx].name]
    ELSE IF st.visited[idx] THEN st
    ELSE LET s1 == [st EXCEPT !.in_stack[idx] = TRUE, !.order = Append(@, idx)]
             s2 == dfs_deps(repos, idx, 1, s1)
         IN  IF s2.err # None THEN s2
             ELSE [s2 EXCEPT !.in_stack[idx] = FALSE, !.visited[idx] = TRUE]

\* a plausible slip: one marker only, set on entry, so a node on the stack
\* looks finished and a cycle goes unnoticed
dfs_one_marker(repos, idx, st) ==
    IF st.err # None THEN st
    ELSE IF st.visited[idx] THEN st
    ELSE LET s1 == [st EXCEPT !.visited[idx] = TRUE]
             s2 == dfs_deps(repos, idx, 1, s1)
         IN  IF s2.err # None THEN s2
             ELSE [s2 EXCEPT !.order = Append(@, idx)]

\* a plausible slip: the visited marker is not read, a node reached twice is
\* pushed twice
dfs_no_visited(repos, idx, st) ==
    IF st.err # None THEN st
    ELSE IF st.in_stack[idx] THEN [st EXCEPT !.err = repos[idx].name]
    ELSE LET s1 == [st EXCEPT !.in_stack[idx] = TRUE]
             s2 == dfs_deps(repos, idx, 1, s1)
         IN  IF s2.err # None THEN s2
             ELSE [s2 EXCEPT !.in_stack[idx] = FALSE,
                             !.visited[idx] = TRUE,
                             !.order = Append(@, idx)]

dfs(repos, idx, st) ==
    IF st.err # None THEN st
    ELSE IF st.in_stack[idx] THEN [st EXCEPT !.err = repos[idx].name]
    ELSE IF st.visited[idx] THEN st
    ELSE LET s1 == [st EXCEPT !.in_stack[idx] = TRUE]
             s2 == dfs_deps(repos, idx, 1, s1)
         IN  IF s2.err # None THEN s2
             ELSE [s2 EXCEPT !.in_stack[idx] = FALSE,
                             !.visited[idx] = TRUE,
                             !.order = Append(@, idx)]

\* a plausible slip: a name that is the name of no repository is an error
RECURSIVE dfs_deps_unknown_fails(_, _, _, _)
dfs_deps_unknown_fails(repos, idx, j, st) ==
    IF j > Len(repos[idx].depends_on) \/ st.err # None THEN st
    ELSE LET dep_idx == position(repos, repos[idx].depends_on[j])
             s1 == IF dep_idx # 0 THEN dfs(repos, dep_idx, st)
                   ELSE [st EXCEPT !.err = repos[idx].depends_on[j]]
         IN  dfs_deps_unknown_fails(repos, idx, j + 1, s1)

\* for dep_name in &repos[idx].depends_on, from entry j on
dfs_deps(repos, idx, j, st) ==
    IF j > Len(repos[idx].depends_on) \/ st.err # None THEN st
    ELSE LET dep_idx == position(repos, repos[idx].depends_on[j])
             s1 == IF dep_idx # 0 THEN dfs(repos, dep_idx, st) ELSE st
         IN  dfs_deps(repos, idx, j + 1, s1)

\* a plausible slip: the error names the repository the walk was started
\* from
RECURSIVE dfs_all_names_start(_, _, _)
dfs_all_names_start(repos, k, st) ==
    IF k > Len(repos) \/ st.err # None THEN st
    ELSE LET s1 == dfs(repos, k, st)
         IN  dfs_all_names_start(repos, k + 1,
                 IF s1.err # None THEN [s1 EXCEPT !.err = repos[k].name] ELSE s1)

\* a plausible slip: (0..repos.len()).rev(), the walk starts from the last
\* repository
RECURSIVE dfs_all_from_last(_, _, _)
dfs_all_from_last(repos, k, st) ==
    IF k > Len(repos) \/ st.err # None THEN st
    ELSE dfs_all_from_last(repos, k + 1, dfs(repos, Len(repos) + 1 - k, st))

\* for i in 0..repos.len() { dfs(i, ...)?; }
RECURSIVE dfs_all(_, _, _)
dfs_all(repos, k, st) ==
    IF k > Len(repos) \/ st.err # None THEN st
    ELSE dfs_all(repos, k + 1, dfs(repos, k, st))

\* Result<Vec<&RepoConfig>>: [ok, order (indices into repos), err]
resolve_build_order(repos) ==
    LET st0 == [visited  |-> [k \in DOMAIN repos |-> FALSE],
                in_stack |-> [k \in DOMAIN repos |-> FALSE],
                order    |-> <<>>,
                err      |-> None]
        st == dfs_all(repos, 1, st0)
    IN  IF st.err # None
        THEN [ok |-> FALSE, order |-> <<>>, err |-> st.err]
        ELSE [ok |-> TRUE, order |-> st.order, err |-> None]

(***************************************************************************)
(* resolve_build_levels.  A level is a sequence of indices into repos;     *)
(* levels[1] is the code's levels[0].                                      *)
(***************************************************************************)
\* levels.iter().position(|lvl| lvl.iter().any(|r| r.name == *dep)): 0 for None
level_position(repos, lvls, dep) ==
    IF \E l \in DOMAIN lvls : \E k \in DOMAIN lvls[l] : repos[lvls[l][k]].name = dep
    THEN CHOOSE l \in DOMAIN lvls :
            /\ \E k \in DOMAIN lvls[l] : repos[lvls[l][k]].name = dep
            /\ \A m \in DOMAIN lvls :
                  (\E k \in DOMAIN lvls[m] : repos[lvls[m][k]].name = dep) => l <= m
    ELSE 0

\* a plausible slip: unwrap_or(levels.len()), a repository without a
\* dependency opens a level of its own
level_of_new_level(repos, lvls, idx) ==
    LET found == {level_position(repos, lvls, repos[idx].depends_on[j]) :
                    j \in DOMAIN repos[idx].depends_on} \ {0}
    IN  IF found = {} THEN Len(lvls) + 1 ELSE Max(found) + 1

\* a plausible slip: min() for max(), the level after the lowest dependency
level_of_min_dep(repos, lvls, idx) ==
    LET found == {level_position(repos, lvls, repos[idx].depends_on[j]) :
                    j \in DOMAIN repos[idx].depends_on} \ {0}
    IN  IF found = {} THEN 1
        ELSE (CHOOSE x \in found : \A y \in found : x <= y) + 1

\* filter_map(..).max().map(|l| l + 1).unwrap_or(0), as an index from 1
level_of(repos, lvls, idx) ==
    LET found == {level_position(repos, lvls, repos[idx].depends_on[j]) :
                    j \in DOMAIN repos[idx].depends_on} \ {0}
    IN  IF found = {} THEN 1 ELSE Max(found) + 1

\* a plausible slip: resize_with(level + 2, ..), one level more than needed
resize_with_extra(lvls, n) ==
    IF n > Len(lvls)
    THEN lvls \o [k \in 1..(n + 1 - Len(lvls)) |-> <<>>]
    ELSE lvls

\* levels.resize_with(level + 1, Vec::new) when level >= levels.len()
resize_with(lvls, n) ==
    IF n > Len(lvls)
    THEN lvls \o [k \in 1..(n - Len(lvls)) |-> <<>>]
    ELSE lvls

\* for repo in &order, from entry k on
RECURSIVE assign_levels(_, _, _, _)
assign_levels(repos, order, k, lvls) ==
    IF k > Len(order) THEN lvls
    ELSE LET level == level_of(repos, lvls, order[k])
             sized == resize_with(lvls, level)
         IN  assign_levels(repos, order, k + 1,
                           [sized EXCEPT ![level] = Append(@, order[k])])

\* Result<Vec<Vec<&RepoConfig>>>: [ok, levels, err]
resolve_build_levels(repos) ==
    LET r == resolve_build_order(repos)
    IN  IF ~r.ok
        THEN [ok |-> FALSE, levels |-> <<>>, err |-> r.err]
        ELSE [ok |-> TRUE, levels |-> assign_levels(repos, r.order, 1, <<>>), err |-> None]

(***************************************************************************)
(* collect_deps: the walk over depends_on names with an explicit stack.    *)
(***************************************************************************)
\* a plausible slip: a dependency is recorded but not pushed on the stack, so
\* its own dependencies are never walked
RECURSIVE collect_push_direct(_, _, _)
collect_push_direct(dl, j, acc) ==
    IF j > Len(dl) THEN acc
    ELSE IF dl[j] \in Range(acc.deps)
         THEN collect_push_direct(dl, j + 1, acc)
         ELSE collect_push_direct(dl, j + 1, [deps  |-> Append(acc.deps, dl[j]),
                                             stack |-> acc.stack])

\* for dep in &repo.depends_on, from entry j on; acc = [deps, stack]
RECURSIVE collect_push(_, _, _)
collect_push(dl, j, acc) ==
    IF j > Len(dl) THEN acc
    ELSE IF dl[j] \in Range(acc.deps)
         THEN collect_push(dl, j + 1, acc)
         ELSE collect_push(dl, j + 1, [deps  |-> Append(acc.deps, dl[j]),
                                      stack |-> Append(acc.stack, dl[j])])

\* while let Some(current) = stack.pop()
RECURSIVE collect_loop(_, _)
collect_loop(repos, acc) ==
    IF acc.stack = <<>> THEN acc.deps
    ELSE LET current == acc.stack[Len(acc.stack)]
             popped == [acc EXCEPT !.stack = SubSeq(@, 1, Len(@) - 1)]
             idx == find_repo(repos, current)
         IN  IF idx # 0
             THEN collect_loop(repos, collect_push(repos[idx].depends_on, 1, popped))
             ELSE collect_loop(repos, popped)

\* Vec<String>
collect_deps(repos, name) ==
    collect_loop(repos, [deps |-> <<>>, stack |-> <<name>>])

(***************************************************************************)
(* Commands and results.  A command is run by run_cmd; what the process    *)
(* does is an input of the model.                                          *)
(***************************************************************************)
\* "empty": the command string has no token; "spawn": the process could not
\* be launched; "exit": it exited non-zero
CmdOutcomes == {"ok", "empty", "spawn", "exit"}

\* a plausible slip: a command without a token is taken as nothing to do
run_cmd_empty_ok(outcome) ==
    [ok   |-> outcome \in {"ok", "empty"},
     text |-> CASE outcome = "ok"    -> "stdout"
                [] outcome = "empty" -> "empty command"
                [] outcome = "spawn" -> "failed to run"
                [] outcome = "exit"  -> "command failed"]

\* Result<String>: Ok(stdout), or Err with the message of the failure kind
run_cmd(outcome) ==
    [ok   |-> outcome = "ok",
     text |-> CASE outcome = "ok"    -> "stdout"
                [] outcome = "empty" -> "empty command"
                [] outcome = "spawn" -> "failed to run"
                [] outcome = "exit"  -> "command failed"]

BuildResult(name, success, output) ==
    [repo_name |-> name, success |-> success, output |-> output]

\* match run_cmd(..): Ok(output) => success: true, output;
\*                    Err(e) => success: false, output: e.to_string()
build_one_repo(repos, idx, outcome) ==
    LET r == run_cmd(outcome)
    IN  BuildResult(repos[idx].name, r.ok, r.text)

\* format!("{} (test)", repo.name)
test_one_repo(repos, idx, outcome) ==
    LET r == run_cmd(outcome)
    IN  BuildResult(repos[idx].name \o " (test)", r.ok, r.text)

\* a plausible slip: any() in the place of all()
BuildReport_any(rs) ==
    [tag |-> "Ok", err |-> None, results |-> rs,
     all_passed |-> \E k \in DOMAIN rs : rs[k].success]

\* Ok(BuildReport { results, all_passed: results.iter().all(|r| r.success) })
BuildReport(rs) ==
    [tag |-> "Ok", err |-> None, results |-> rs,
     all_passed |-> \A k \in DOMAIN rs : rs[k].success]

\* Err(..): "Cycle", "NotFound", or "Clean" (an error of a clean command)
Error(e) == [tag |-> "Err", err |-> e, results |-> <<>>, all_passed |-> FALSE]

NoReturn == [tag |-> "None", err |-> None, results |-> <<>>, all_passed |-> FALSE]

\* no call of resolve_build_order was made yet
NoOrder == [ok |-> FALSE, order |-> <<>>, err |-> None]

\* before: what the call of resolve_build_order before this call returned
NoCall == [fn |-> "none", arg |-> None, val |-> <<>>, before |-> NoOrder]

NoTargets == [some |-> FALSE, names |-> {}]

NoResult == BuildResult(None, FALSE, None)

\* a thread: where it is, the result it is about to push, the mutex guards
\* it holds
Worker(at, result) == [pc |-> at, result |-> result, holds |-> {}]

vars == <<manifest, out, args, pc, repos_to_build, levels, target_repos, i,
          phase, results, failed, workers, ran, ret>>

engine == <<args, pc, repos_to_build, levels, target_repos, i,
            phase, results, failed, workers, ran, ret>>

(***************************************************************************)
(* The resolver, called on a manifest (no build is running).               *)
(***************************************************************************)
NoArgs == [repo_name |-> None, run_tests |-> FALSE, clean_first |-> FALSE,
           parallel |-> FALSE]

Idle(at) ==
    /\ pc = at
    /\ repos_to_build = <<>>
    /\ levels = <<>>
    /\ target_repos = NoTargets
    /\ i = 1
    /\ phase = "build"
    /\ results = <<>>
    /\ failed = FALSE
    /\ workers = <<>>
    /\ ran = {}
    /\ ret = NoReturn

InitResolve ==
    /\ manifest \in Manifests
    /\ out = NoCall
    /\ args = NoArgs
    /\ Idle("idle")

\* what the last call of resolve_build_order so far returned
LastOrder == IF out.fn = "resolve_build_order" THEN out.val ELSE out.before

\* a plausible slip: the walk takes the depends_on entries out of the
\* manifest as it follows them
CallResolveOrder_drains ==
    /\ pc = "idle"
    /\ out.fn # "walk"
    /\ out' = [fn |-> "resolve_build_order", arg |-> None,
               val |-> resolve_build_order(manifest), before |-> LastOrder]
    /\ manifest' = [k \in DOMAIN manifest |-> RepoConfig(manifest[k].name, <<>>)]
    /\ UNCHANGED engine

\* resolve_build_order(&manifest), as the dry run of the build command calls it
CallResolveOrder ==
    /\ pc = "idle"
    /\ out.fn # "walk"
    /\ out' = [fn |-> "resolve_build_order", arg |-> None,
               val |-> resolve_build_order(manifest), before |-> LastOrder]
    /\ UNCHANGED <<manifest, engine>>

CallResolveLevels ==
    /\ pc = "idle"
    /\ out.fn # "walk"
    /\ out' = [fn |-> "resolve_build_levels", arg |-> None,
               val |-> resolve_build_levels(manifest), before |-> LastOrder]
    /\ UNCHANGED <<manifest, engine>>

CallCollectDeps ==
    /\ pc = "idle"
    /\ out.fn # "walk"
    /\ \E name \in DepNames(Len(manifest)) :
          out' = [fn |-> "collect_deps", arg |-> name,
                  val |-> collect_deps(manifest, name), before |-> LastOrder]
    /\ UNCHANGED <<manifest, engine>>

\* collect_deps step by step: out.val is [deps, stack] while the loop runs.
\* lines 337-338: let mut deps = Vec::new(); let mut stack = vec![name]
WalkStart ==
    /\ pc = "idle"
    /\ out.fn # "walk"
    /\ \E name \in DepNames(Len(manifest)) :
          out' = [fn |-> "walk", arg |-> name,
                  val |-> [deps |-> <<>>, stack |-> <<name>>],
                  before |-> LastOrder]
    /\ UNCHANGED <<manifest, engine>>

\* a plausible slip: no test of deps.contains(dep), every depends_on entry
\* is recorded and pushed
WalkStep_no_contains ==
    /\ pc = "idle"
    /\ out.fn = "walk"
    /\ out.val.stack # <<>>
    /\ LET acc == out.val
           current == acc.stack[Len(acc.stack)]
           popped == [acc EXCEPT !.stack = SubSeq(@, 1, Len(@) - 1)]
           idx == find_repo(manifest, current)
       IN  out' = [out EXCEPT !.val =
                      IF idx # 0
                      THEN [deps  |-> popped.deps \o manifest[idx].depends_on,
                            stack |-> popped.stack \o manifest[idx].depends_on]
                      ELSE popped]
    /\ UNCHANGED <<manifest, engine>>

\* lines 339-348: one turn of while let Some(current) = stack.pop()
WalkStep ==
    /\ pc = "idle"
    /\ out.fn = "walk"
    /\ out.val.stack # <<>>
    /\ LET acc == out.val
           current == acc.stack[Len(acc.stack)]
           popped == [acc EXCEPT !.stack = SubSeq(@, 1, Len(@) - 1)]
           idx == find_repo(manifest, current)
       IN  out' = [out EXCEPT !.val =
                      IF idx # 0
                      THEN collect_push(manifest[idx].depends_on, 1, popped)
                      ELSE popped]
    /\ UNCHANGED <<manifest, engine>>

\* lines 339, 349: the stack is empty, deps is returned
WalkReturn ==
    /\ pc = "idle"
    /\ out.fn = "walk"
    /\ out.val.stack = <<>>
    /\ out' = [out EXCEPT !.fn = "collect_deps", !.val = out.val.deps]
    /\ UNCHANGED <<manifest, engine>>

NextResolve ==
    \/ CallResolveOrder \/ CallResolveLevels \/ CallCollectDeps
    \/ WalkStart \/ WalkStep \/ WalkReturn

SpecResolve == InitResolve /\ [][NextResolve]_vars

(***************************************************************************)
(* build and build_parallel: one call of build_inner.                      *)
(***************************************************************************)
Init ==
    /\ manifest \in BuildManifests
    /\ out = NoCall
    /\ args \in [repo_name   : DepNames(MaxRepos) \cup {None},
                 run_tests   : BOOLEAN,
                 clean_first : BOOLEAN,
                 parallel    : BOOLEAN]
    /\ Idle("start")

Return(r) == ret' = r /\ pc' = "done"

\* the first step on a repository: the clean command is looked at only
\* when clean_first is set
FirstPhase == IF args.clean_first THEN "clean" ELSE "build"

(***************************************************************************)
(* The sequential engine, build_inner with parallel = false.               *)
(***************************************************************************)
\* lines 137-151: the order, the target, the working order
SeqStart ==
    /\ pc = "start"
    /\ ~args.parallel
    /\ LET build_order == resolve_build_order(manifest)
           name == args.repo_name
           deps == collect_deps(manifest, name)
       IN  IF ~build_order.ok
           THEN Return(Error("Cycle")) /\ UNCHANGED <<repos_to_build, i, phase>>
           ELSE IF name # None /\ find_repo(manifest, name) = 0
           THEN Return(Error("NotFound")) /\ UNCHANGED <<repos_to_build, i, phase>>
           ELSE /\ repos_to_build' =
                      IF name # None
                      THEN SelectSeq(build_order.order,
                                     LAMBDA r : manifest[r].name = name
                                                \/ manifest[r].name \in Range(deps))
                      ELSE build_order.order
                /\ i' = 1
                /\ phase' = FirstPhase
                /\ pc' = "seq"
                /\ UNCHANGED ret
    /\ UNCHANGED <<manifest, out, args, levels, target_repos, results, failed,
                   workers, ran>>

\* the loop goes to the next repository, or ends
SeqAdvance ==
    /\ i' = i + 1
    /\ phase' = FirstPhase
    /\ pc' = IF i + 1 > Len(repos_to_build) THEN "report" ELSE "seq"

\* lines 155-157: if clean_first && let Some(cmd) = &repo.clean_cmd.
\* clean_cmd is read here and nowhere else, so it is drawn here.
SeqClean ==
    /\ pc = "seq"
    /\ i <= Len(repos_to_build)
    /\ phase = "clean"
    /\ \E clean_cmd \in BOOLEAN, outcome \in CmdOutcomes :
          IF clean_cmd
          THEN IF run_cmd(outcome).ok
               THEN /\ ran' = ran \cup {<<repos_to_build[i], "clean">>}
                    /\ phase' = "build"
                    /\ UNCHANGED <<pc, ret>>
               ELSE /\ ran' = ran \cup {<<repos_to_build[i], "clean">>,
                                        <<repos_to_build[i], "clean_err">>}
                    /\ Return(Error("Clean"))
                    /\ UNCHANGED phase
          ELSE phase' = "build" /\ UNCHANGED <<pc, ret, ran>>
    /\ UNCHANGED <<manifest, out, args, repos_to_build, levels, target_repos, i,
                   results, failed, workers>>

\* a plausible slip: the loop goes on after a failed build
SeqBuild_no_break ==
    /\ pc = "seq"
    /\ i <= Len(repos_to_build)
    /\ phase = "build"
    /\ \E outcome \in CmdOutcomes :
          LET build_result == build_one_repo(manifest, repos_to_build[i], outcome)
          IN  /\ ran' = ran \cup {<<repos_to_build[i], "build">>}
              /\ results' = Append(results, build_result)
              /\ IF args.run_tests /\ build_result.success
                 THEN phase' = "test" /\ UNCHANGED <<pc, i>>
                 ELSE SeqAdvance
    /\ UNCHANGED <<manifest, out, args, repos_to_build, levels, target_repos,
                   failed, workers, ret>>

\* a plausible slip: the test is run whether or not it was asked for
SeqBuild_always_test ==
    /\ pc = "seq"
    /\ i <= Len(repos_to_build)
    /\ phase = "build"
    /\ \E outcome \in CmdOutcomes :
          LET build_result == build_one_repo(manifest, repos_to_build[i], outcome)
          IN  /\ ran' = ran \cup {<<repos_to_build[i], "build">>}
              /\ results' = Append(results, build_result)
              /\ IF ~build_result.success
                 THEN pc' = "report" /\ UNCHANGED <<i, phase>>
                 ELSE phase' = "test" /\ UNCHANGED <<pc, i>>
    /\ UNCHANGED <<manifest, out, args, repos_to_build, levels, target_repos,
                   failed, workers, ret>>

\* lines 159-165 (and 167, 175 when no test is run)
SeqBuild ==
    /\ pc = "seq"
    /\ i <= Len(repos_to_build)
    /\ phase = "build"
    /\ \E outcome \in CmdOutcomes :
          LET build_result == build_one_repo(manifest, repos_to_build[i], outcome)
          IN  /\ ran' = ran \cup {<<repos_to_build[i], "build">>}
              /\ results' = Append(results, build_result)
              /\ IF ~build_result.success
                 THEN pc' = "report" /\ UNCHANGED <<i, phase>>
                 ELSE IF args.run_tests
                 THEN phase' = "test" /\ UNCHANGED <<pc, i>>
                 ELSE SeqAdvance
    /\ UNCHANGED <<manifest, out, args, repos_to_build, levels, target_repos,
                   failed, workers, ret>>

\* a plausible slip: the loop goes on after a failed test
SeqTest_no_break ==
    /\ pc = "seq"
    /\ i <= Len(repos_to_build)
    /\ phase = "test"
    /\ \E outcome \in CmdOutcomes :
          LET test_result == test_one_repo(manifest, repos_to_build[i], outcome)
          IN  /\ ran' = ran \cup {<<repos_to_build[i], "test">>}
              /\ results' = Append(results, test_result)
              /\ SeqAdvance
    /\ UNCHANGED <<manifest, out, args, repos_to_build, levels, target_repos,
                   failed, workers, ret>>

\* lines 167-174
SeqTest ==
    /\ pc = "seq"
    /\ i <= Len(repos_to_build)
    /\ phase = "test"
    /\ \E outcome \in CmdOutcomes :
          LET test_result == test_one_repo(manifest, repos_to_build[i], outcome)
          IN  /\ ran' = ran \cup {<<repos_to_build[i], "test">>}
              /\ results' = Append(results, test_result)
              /\ IF ~test_result.success
                 THEN pc' = "report" /\ UNCHANGED <<i, phase>>
                 ELSE SeqAdvance
    /\ UNCHANGED <<manifest, out, args, repos_to_build, levels, target_repos,
                   failed, workers, ret>>

\* the loop over an empty working order ends at once
SeqEmpty ==
    /\ pc = "seq"
    /\ i > Len(repos_to_build)
    /\ pc' = "report"
    /\ UNCHANGED <<manifest, out, args, repos_to_build, levels, target_repos, i,
                   phase, results, failed, workers, ran, ret>>

\* lines 177-182
SeqReport ==
    /\ pc = "report"
    /\ ~args.parallel
    /\ Return(BuildReport(results))
    /\ UNCHANGED <<manifest, out, args, repos_to_build, levels, target_repos, i,
                   phase, results, failed, workers, ran>>

(***************************************************************************)
(* The parallel engine, build_parallel_impl.                               *)
(***************************************************************************)
\* a plausible slip: unwrap_or_default() in the place of ?, a cyclic manifest
\* has no level
ParStart_no_cycle_error ==
    /\ pc = "start"
    /\ args.parallel
    /\ LET lv == resolve_build_levels(manifest)
           name == args.repo_name
       IN  /\ levels' = lv.levels
           /\ target_repos' =
                 IF name # None
                 THEN [some |-> TRUE,
                       names |-> Range(collect_deps(manifest, name)) \cup {name}]
                 ELSE NoTargets
           /\ pc' = "par"
           /\ UNCHANGED ret
    /\ UNCHANGED <<manifest, out, args, repos_to_build, i, phase, results,
                   failed, workers, ran>>

\* lines 193-203
ParStart ==
    /\ pc = "start"
    /\ args.parallel
    /\ LET lv == resolve_build_levels(manifest)
           name == args.repo_name
       IN  IF ~lv.ok
           THEN Return(Error("Cycle")) /\ UNCHANGED <<levels, target_repos>>
           ELSE /\ levels' = lv.levels
                /\ target_repos' =
                      IF name # None
                      THEN [some |-> TRUE,
                            names |-> Range(collect_deps(manifest, name)) \cup {name}]
                      ELSE NoTargets
                /\ pc' = "par"
                /\ UNCHANGED ret
    /\ UNCHANGED <<manifest, out, args, repos_to_build, i, phase, results,
                   failed, workers, ran>>

\* lines 211-218: the repositories of a level that are in the working set
repos_in_level(level) ==
    SelectSeq(level, LAMBDA r : ~target_repos.some
                                \/ manifest[r].name \in target_repos.names)

\* lines 205-209: the flag is set, the loop over the levels is left
ParBreak ==
    /\ pc = "par"
    /\ i <= Len(levels)
    /\ failed
    /\ pc' = "report"
    /\ UNCHANGED <<manifest, out, args, repos_to_build, levels, target_repos, i,
                   phase, results, failed, workers, ran, ret>>

\* line 205: no level is left
ParEnd ==
    /\ pc = "par"
    /\ i > Len(levels)
    /\ pc' = "report"
    /\ UNCHANGED <<manifest, out, args, repos_to_build, levels, target_repos, i,
                   phase, results, failed, workers, ran, ret>>

\* lines 220-222: nothing of the level is in the working set
ParSkip ==
    /\ pc = "par"
    /\ i <= Len(levels)
    /\ ~failed
    /\ repos_in_level(levels[i]) = <<>>
    /\ i' = i + 1
    /\ UNCHANGED <<manifest, out, args, pc, repos_to_build, levels, target_repos,
                   phase, results, failed, workers, ran, ret>>

\* a plausible slip: the threads of every remaining level are spawned in one
\* scope
ParSpawn_every_level ==
    /\ pc = "par"
    /\ i <= Len(levels)
    /\ ~failed
    /\ repos_in_level(levels[i]) # <<>>
    /\ workers' = [r \in UNION {Range(repos_in_level(levels[l])) : l \in i..Len(levels)}
                      |-> Worker("check", NoResult)]
    /\ i' = Len(levels)
    /\ pc' = "join"
    /\ UNCHANGED <<manifest, out, args, repos_to_build, levels, target_repos,
                   phase, results, failed, ran, ret>>

\* lines 224-256: one thread per repository of the level
ParSpawn ==
    /\ pc = "par"
    /\ i <= Len(levels)
    /\ ~failed
    /\ repos_in_level(levels[i]) # <<>>
    /\ workers' = [r \in Range(repos_in_level(levels[i])) |-> Worker("check", NoResult)]
    /\ pc' = "join"
    /\ UNCHANGED <<manifest, out, args, repos_to_build, levels, target_repos, i,
                   phase, results, failed, ran, ret>>

\* a plausible slip: the loop goes on as soon as one thread has ended
ParJoin_first_ended ==
    /\ pc = "join"
    /\ \E r \in DOMAIN workers : workers[r].pc = "done"
    /\ workers' = <<>>
    /\ i' = i + 1
    /\ pc' = "par"
    /\ UNCHANGED <<manifest, out, args, repos_to_build, levels, target_repos,
                   phase, results, failed, ran, ret>>

\* lines 258-261: every thread of the level is joined
ParJoin ==
    /\ pc = "join"
    /\ \A r \in DOMAIN workers : workers[r].pc = "done"
    /\ workers' = <<>>
    /\ i' = i + 1
    /\ pc' = "par"
    /\ UNCHANGED <<manifest, out, args, repos_to_build, levels, target_repos,
                   phase, results, failed, ran, ret>>

\* lines 264-270
ParReport ==
    /\ pc = "report"
    /\ args.parallel
    /\ Return(BuildReport(results))
    /\ UNCHANGED <<manifest, out, args, repos_to_build, levels, target_repos, i,
                   phase, results, failed, workers, ran>>

(***************************************************************************)
(* A thread of the level, for repository r (lines 228-254).  In "clean",   *)
(* "build" and "test" its command is running; every other step is one      *)
(* critical section on the flag or on the results.                         *)
(***************************************************************************)
main == <<manifest, out, args, pc, repos_to_build, levels, target_repos, i,
          phase, ret>>

\* a plausible slip: the thread does not read the flag when it starts
WorkerCheck_no_read(r) ==
    /\ workers[r].pc = "check"
    /\ \E clean_cmd \in BOOLEAN :
          IF args.clean_first /\ clean_cmd
          THEN /\ workers' = [workers EXCEPT ![r].pc = "clean"]
               /\ ran' = ran \cup {<<r, "clean">>}
          ELSE /\ workers' = [workers EXCEPT ![r].pc = "build"]
               /\ ran' = ran \cup {<<r, "build">>}
    /\ UNCHANGED <<main, results, failed>>

\* lines 229-235: the flag is read; if it is not set the first command is
\* started.  clean_cmd is read here and nowhere else, so it is drawn here.
WorkerCheck(r) ==
    /\ workers[r].pc = "check"
    /\ IF failed
       THEN /\ workers' = [workers EXCEPT ![r].pc = "done"]
            /\ UNCHANGED ran
       ELSE \E clean_cmd \in BOOLEAN :
               IF args.clean_first /\ clean_cmd
               THEN /\ workers' = [workers EXCEPT ![r].pc = "clean"]
                    /\ ran' = ran \cup {<<r, "clean">>}
               ELSE /\ workers' = [workers EXCEPT ![r].pc = "build"]
                    /\ ran' = ran \cup {<<r, "build">>}
    /\ UNCHANGED <<main, results, failed>>

\* line 234: let _ = run_cmd(..), then the build command is started
WorkerClean(r) ==
    /\ workers[r].pc = "clean"
    /\ \E outcome \in CmdOutcomes :
          /\ workers' = [workers EXCEPT ![r].pc = "build"]
          /\ ran' = ran \cup {<<r, "build">>}
                      \cup (IF run_cmd(outcome).ok THEN {} ELSE {<<r, "clean_err">>})
    /\ UNCHANGED <<main, results, failed>>

\* lines 237-238: the build command returns
WorkerBuild(r) ==
    /\ workers[r].pc = "build"
    /\ \E outcome \in CmdOutcomes :
          workers' = [workers EXCEPT
                         ![r] = Worker("push_build", build_one_repo(manifest, r, outcome))]
    /\ UNCHANGED <<main, results, failed, ran>>

\* a plausible slip: the test is run after a failed build too
WorkerPushBuild_test_anyway(r) ==
    /\ workers[r].pc = "push_build"
    /\ results' = Append(results, workers[r].result)
    /\ IF args.run_tests
       THEN /\ workers' = [workers EXCEPT ![r].pc = "test"]
            /\ ran' = ran \cup {<<r, "test">>}
       ELSE IF ~workers[r].result.success
       THEN workers' = [workers EXCEPT ![r].pc = "set_failed"] /\ UNCHANGED ran
       ELSE workers' = [workers EXCEPT ![r].pc = "done"] /\ UNCHANGED ran
    /\ UNCHANGED <<main, failed>>

\* a plausible slip: the flag cancels a running sibling, which drops its
\* result when it finds the flag set
WorkerPushBuild_cancel(r) ==
    /\ workers[r].pc = "push_build"
    /\ IF failed
       THEN workers' = [workers EXCEPT ![r].pc = "done"] /\ UNCHANGED <<results, ran>>
       ELSE /\ results' = Append(results, workers[r].result)
            /\ IF ~workers[r].result.success
               THEN workers' = [workers EXCEPT ![r].pc = "set_failed"] /\ UNCHANGED ran
               ELSE IF args.run_tests
               THEN /\ workers' = [workers EXCEPT ![r].pc = "test"]
                    /\ ran' = ran \cup {<<r, "test">>}
               ELSE workers' = [workers EXCEPT ![r].pc = "done"] /\ UNCHANGED ran
    /\ UNCHANGED <<main, failed>>

\* lines 239-247: the build result is pushed; then the flag is to be set,
\* or the test command is started
WorkerPushBuild(r) ==
    /\ workers[r].pc = "push_build"
    /\ results' = Append(results, workers[r].result)
    /\ IF ~workers[r].result.success
       THEN workers' = [workers EXCEPT ![r].pc = "set_failed"] /\ UNCHANGED ran
       ELSE IF args.run_tests
       THEN /\ workers' = [workers EXCEPT ![r].pc = "test"]
            /\ ran' = ran \cup {<<r, "test">>}
       ELSE workers' = [workers EXCEPT ![r].pc = "done"] /\ UNCHANGED ran
    /\ UNCHANGED <<main, failed>>

\* lines 247-248: the test command returns
WorkerTest(r) ==
    /\ workers[r].pc = "test"
    /\ \E outcome \in CmdOutcomes :
          workers' = [workers EXCEPT
                         ![r] = Worker("push_test", test_one_repo(manifest, r, outcome))]
    /\ UNCHANGED <<main, results, failed, ran>>

\* a plausible slip: a failed test does not set the flag
WorkerPushTest_no_flag(r) ==
    /\ workers[r].pc = "push_test"
    /\ results' = Append(results, workers[r].result)
    /\ workers' = [workers EXCEPT ![r].pc = "done"]
    /\ UNCHANGED <<main, failed, ran>>

\* a plausible slip: a thread that finds the flag set after its test drops
\* the test result
WorkerPushTest_cancel(r) ==
    /\ workers[r].pc = "push_test"
    /\ IF failed
       THEN workers' = [workers EXCEPT ![r].pc = "done"] /\ UNCHANGED results
       ELSE /\ results' = Append(results, workers[r].result)
            /\ workers' = [workers EXCEPT
                              ![r].pc = IF workers[r].result.success
                                        THEN "done" ELSE "set_failed"]
    /\ UNCHANGED <<main, failed, ran>>

\* lines 249-250: the test result is pushed
WorkerPushTest(r) ==
    /\ workers[r].pc = "push_test"
    /\ results' = Append(results, workers[r].result)
    /\ workers' = [workers EXCEPT
                      ![r].pc = IF workers[r].result.success THEN "done" ELSE "set_failed"]
    /\ UNCHANGED <<main, failed, ran>>

\* lines 242-243 and 251: *failed.lock().unwrap() = true
WorkerSetFailed(r) ==
    /\ workers[r].pc = "set_failed"
    /\ failed' = TRUE
    /\ workers' = [workers EXCEPT ![r].pc = "done"]
    /\ UNCHANGED <<main, results, ran>>

Next ==
    \/ SeqStart \/ SeqClean \/ SeqBuild \/ SeqTest \/ SeqEmpty \/ SeqReport
    \/ ParStart \/ ParBreak \/ ParEnd \/ ParSkip \/ ParSpawn \/ ParJoin \/ ParReport
    \/ \E r \in DOMAIN workers : WorkerCheck(r)
    \/ \E r \in DOMAIN workers : WorkerClean(r)
    \/ \E r \in DOMAIN workers : WorkerBuild(r)
    \/ \E r \in DOMAIN workers : WorkerPushBuild(r)
    \/ \E r \in DOMAIN workers : WorkerTest(r)
    \/ \E r \in DOMAIN workers : WorkerPushTest(r)
    \/ \E r \in DOMAIN workers : WorkerSetFailed(r)

Spec == Init /\ [][Next]_vars

(***************************************************************************)
(* The parallel engine with the mutex operations as steps of their own.    *)
(* A thread takes a mutex in one step (lock() returns the guard) and reads *)
(* or writes and drops the guard in the next; workers[r].holds is the set  *)
(* of the mutexes whose guard thread r holds.  In Spec each of these pairs *)
(* of steps is one step.  The main thread locks the flag (line 207) only   *)
(* when no thread exists, so its read stays one step.                      *)
(***************************************************************************)
\* the mutex a thread takes at pc: failed (lines 229, 242, 251) or results
\* (lines 239, 249)
MutexAt(at) == IF at \in {"check", "set_failed"} THEN "failed" ELSE "results"

\* no thread holds the guard of mutex m
MutexFree(m) == \A q \in DOMAIN workers : m \notin workers[q].holds

\* .lock().unwrap() returns: the thread holds the guard
Lock(r) ==
    /\ workers[r].pc \in {"check", "push_build", "set_failed", "push_test"}
    /\ workers[r].holds = {}
    /\ MutexFree(MutexAt(workers[r].pc))
    /\ workers' = [workers EXCEPT ![r].holds = {MutexAt(workers[r].pc)}]
    /\ UNCHANGED <<main, results, failed, ran>>

\* a plausible slip: let guard = failed.lock().unwrap(); if *guard { return; }
\* the guard lives until the closure ends
LockedCheck_guard_kept(r) ==
    /\ workers[r].pc = "check"
    /\ workers[r].holds = {"failed"}
    /\ IF failed
       THEN /\ workers' = [workers EXCEPT ![r].pc = "done", ![r].holds = {}]
            /\ UNCHANGED ran
       ELSE \E clean_cmd \in BOOLEAN :
               IF args.clean_first /\ clean_cmd
               THEN /\ workers' = [workers EXCEPT ![r].pc = "clean"]
                    /\ ran' = ran \cup {<<r, "clean">>}
               ELSE /\ workers' = [workers EXCEPT ![r].pc = "build"]
                    /\ ran' = ran \cup {<<r, "build">>}
    /\ UNCHANGED <<main, results, failed>>

\* lines 229-235: the flag is read under its guard, the guard is dropped at
\* the end of the condition, then the first command is started
LockedCheck(r) ==
    /\ workers[r].pc = "check"
    /\ workers[r].holds = {"failed"}
    /\ IF failed
       THEN /\ workers' = [workers EXCEPT ![r].pc = "done", ![r].holds = {}]
            /\ UNCHANGED ran
       ELSE \E clean_cmd \in BOOLEAN :
               IF args.clean_first /\ clean_cmd
               THEN /\ workers' = [workers EXCEPT ![r].pc = "clean", ![r].holds = {}]
                    /\ ran' = ran \cup {<<r, "clean">>}
               ELSE /\ workers' = [workers EXCEPT ![r].pc = "build", ![r].holds = {}]
                    /\ ran' = ran \cup {<<r, "build">>}
    /\ UNCHANGED <<main, results, failed>>

\* lines 239-247: the build result is pushed under the guard of results,
\* the guard is dropped at the end of the statement
LockedPushBuild(r) ==
    /\ workers[r].pc = "push_build"
    /\ workers[r].holds = {"results"}
    /\ results' = Append(results, workers[r].result)
    /\ IF ~workers[r].result.success
       THEN /\ workers' = [workers EXCEPT ![r].pc = "set_failed", ![r].holds = {}]
            /\ UNCHANGED ran
       ELSE IF args.run_tests
       THEN /\ workers' = [workers EXCEPT ![r].pc = "test", ![r].holds = {}]
            /\ ran' = ran \cup {<<r, "test">>}
       ELSE /\ workers' = [workers EXCEPT ![r].pc = "done", ![r].holds = {}]
            /\ UNCHANGED ran
    /\ UNCHANGED <<main, failed>>

\* lines 249-250: the test result is pushed under the guard of results
LockedPushTest(r) ==
    /\ workers[r].pc = "push_test"
    /\ workers[r].holds = {"results"}
    /\ results' = Append(results, workers[r].result)
    /\ workers' = [workers EXCEPT
                      ![r].pc = IF workers[r].result.success
                                THEN "done" ELSE "set_failed",
                      ![r].holds = {}]
    /\ UNCHANGED <<main, failed, ran>>

\* lines 242-243 and 251: the flag is set under its guard
LockedSetFailed(r) ==
    /\ workers[r].pc = "set_failed"
    /\ workers[r].holds = {"failed"}
    /\ failed' = TRUE
    /\ workers' = [workers EXCEPT ![r].pc = "done", ![r].holds = {}]
    /\ UNCHANGED <<main, results, ran>>

\* a call of build_parallel, for the whole manifest or for its first
\* repository
InitLocks ==
    /\ manifest \in {m \in BuildManifests : Len(m) <= MaxLockRepos}
    /\ out = NoCall
    /\ args \in [repo_name   : {NamePool[1], None},
                 run_tests   : BOOLEAN,
                 clean_first : BOOLEAN,
                 parallel    : {TRUE}]
    /\ Idle("start")

NextLocks ==
    \/ ParStart \/ ParBreak \/ ParEnd \/ ParSkip \/ ParSpawn \/ ParJoin \/ ParReport
    \/ \E r \in DOMAIN workers : Lock(r)
    \/ \E r \in DOMAIN workers : LockedCheck(r)
    \/ \E r \in DOMAIN workers : WorkerClean(r)
    \/ \E r \in DOMAIN workers : WorkerBuild(r)
    \/ \E r \in DOMAIN workers : LockedPushBuild(r)
    \/ \E r \in DOMAIN workers : WorkerTest(r)
    \/ \E r \in DOMAIN workers : LockedPushTest(r)
    \/ \E r \in DOMAIN workers : LockedSetFailed(r)

SpecLocks == InitLocks /\ [][NextLocks]_vars

\* the main thread is scheduled: a call that has not begun does not stay at
\* its start for ever.  ParStart is possible in every state with pc =
\* "start" (the resolver is total); the condition below is possible in the
\* same states and is told from pc alone.
Begins ==
    /\ pc = "start"
    /\ pc' \in {"par", "done"}
    /\ UNCHANGED <<manifest, out, args, repos_to_build, levels, target_repos, i,
                   phase, results, failed, workers, ran, ret>>

\* a step of the call after its start
AfterStart == pc # "start" /\ NextLocks

\* the same where the call goes on while a step is possible: the call
\* begins, a command that was spawned exits (run_cmd waits for it, lines
\* 320-323), a thread that can take a step is scheduled, the main thread
\* goes on after the joins.  Together the two conditions are weak fairness
\* of NextLocks, stated apart for the states before and after the start.
SpecLocksFair == SpecLocks /\ WF_vars(Begins) /\ WF_vars(AfterStart)

(***************************************************************************)
(* The dependency graph of a manifest, stated without the resolver: the    *)
(* vocabulary of the properties below.                                     *)
(***************************************************************************)
\* the repositories the depends_on names of repository a resolve to
DepsOf(repos, a) ==
    {position(repos, repos[a].depends_on[j]) : j \in DOMAIN repos[a].depends_on} \ {0}

\* the repositories reachable from the set S by one or more depends_on edges
RECURSIVE ReachFrom(_, _, _)
ReachFrom(repos, S, seen) ==
    LET next == UNION {DepsOf(repos, a) : a \in S}
    IN  IF next \subseteq seen THEN seen
        ELSE ReachFrom(repos, next \ seen, seen \cup next)

Reach(repos, a) == ReachFrom(repos, {a}, {})

Acyclic(repos) == \A a \in DOMAIN repos : a \notin Reach(repos, a)

\* the position of x in the sequence s, 0 when it is not there
IndexIn(s, x) == IF \E k \in DOMAIN s : s[k] = x
                 THEN CHOOSE k \in DOMAIN s : s[k] = x
                 ELSE 0

\* the levels that hold repository a
LevelsHolding(lvls, a) == {l \in DOMAIN lvls : a \in Range(lvls[l])}

LevelIn(lvls, a) == CHOOSE l \in LevelsHolding(lvls, a) : TRUE

NoDuplicates(s) == \A j, k \in DOMAIN s : s[j] = s[k] => j = k

(***************************************************************************)
(* Properties of the resolver (under SpecResolve).                         *)
(***************************************************************************)
\* C1: on an acyclic manifest resolve_build_order returns an order, and in
\* it every dependency of a repository that names a repository of the
\* manifest stands strictly before that repository.
C1_TopologicalOrder ==
    (out.fn = "resolve_build_order" /\ Acyclic(manifest)) =>
        /\ out.val.ok
        /\ \A p \in DOMAIN out.val.order :
              \A d \in DepsOf(manifest, out.val.order[p]) :
                 \E q \in 1..(p - 1) : out.val.order[q] = d

\* an acyclic manifest of three repositories with a chain of dependencies,
\* resolved
C1_Witness ==
    /\ out.fn = "resolve_build_order"
    /\ Acyclic(manifest)
    /\ Len(out.val.order) = 3
    /\ \E a, b \in DOMAIN manifest :
          b \in DepsOf(manifest, a) /\ DepsOf(manifest, b) # {}

\* C2: on a manifest whose depends_on edges hold a cycle, wherever it is,
\* resolve_build_order and resolve_build_levels fail with the cycle error
\* and return no order and no levels.
C2_CycleDetected ==
    (out.fn \in {"resolve_build_order", "resolve_build_levels"} /\ ~Acyclic(manifest)) =>
        /\ ~out.val.ok
        /\ out.val.err # None
        /\ out.fn = "resolve_build_order" => out.val.order = <<>>
        /\ out.fn = "resolve_build_levels" => out.val.levels = <<>>

\* a cycle of two or more repositories that the first repository of the
\* manifest is not part of, given to resolve_build_levels
C2_Witness ==
    /\ out.fn = "resolve_build_levels"
    /\ Len(manifest) >= 3
    /\ 1 \notin Reach(manifest, 1)
    /\ \E a, b \in DOMAIN manifest :
          a # b /\ b \in DepsOf(manifest, a) /\ a \in Reach(manifest, b)
    /\ ~out.val.ok

\* C3: on an acyclic manifest resolve_build_levels puts every repository in
\* one level: the first when it has no resolvable dependency, else the one
\* after the highest level of its resolvable dependencies; so its
\* dependencies are in strictly earlier levels and no earlier level has
\* that property.
C3_LevelIsOnePlusMax ==
    (out.fn = "resolve_build_levels" /\ Acyclic(manifest)) =>
        /\ out.val.ok
        /\ \A a \in DOMAIN manifest :
              /\ Cardinality(LevelsHolding(out.val.levels, a)) = 1
              /\ LET deps == DepsOf(manifest, a)
                     la == LevelIn(out.val.levels, a)
                     ld == {LevelIn(out.val.levels, d) : d \in deps}
                 IN  /\ la = IF deps = {} THEN 1 ELSE Max(ld) + 1
                     /\ \A l \in ld : l < la
                     /\ \A l \in 1..(la - 1) : \E m \in ld : m >= l

\* a repository whose two dependencies are in different levels
C3_Witness ==
    /\ out.fn = "resolve_build_levels"
    /\ out.val.ok
    /\ \E a \in DOMAIN manifest :
          \E d, e \in DepsOf(manifest, a) :
             LevelIn(out.val.levels, d) < LevelIn(out.val.levels, e)

\* C4: on an acyclic manifest no two repositories of one level have a
\* dependency path between them, in either direction.
C4_LevelIndependent ==
    (out.fn = "resolve_build_levels" /\ Acyclic(manifest)) =>
        \A l \in DOMAIN out.val.levels :
           \A a, b \in Range(out.val.levels[l]) :
              a \notin Reach(manifest, b)

\* two repositories share a level that is not the first one
C4_Witness ==
    /\ out.fn = "resolve_build_levels"
    /\ out.val.ok
    /\ \E l \in DOMAIN out.val.levels :
          l > 1 /\ Len(out.val.levels[l]) >= 2

\* C5 (as claimed): collect_deps returns, each once, exactly the
\* repositories reachable from the target by depends_on edges, the target
\* itself excluded, whatever the shape of the graph.
C5_ExactClosure ==
    out.fn = "collect_deps" =>
        LET t == find_repo(manifest, out.arg)
            reachable == IF t = 0 THEN {} ELSE Reach(manifest, t) \ {t}
        IN  /\ NoDuplicates(out.val)
            /\ Range(out.val) = {manifest[a].name : a \in reachable}


(***************************************************************************)
(* The vocabulary of the properties of the engines.                        *)
(***************************************************************************)
Phases == {"clean", "build", "test"}

\* the names build_one_repo and test_one_repo report repository r under
BuildName(r) == manifest[r].name
TestName(r) == manifest[r].name \o " (test)"

\* rs holds a result, or a failed result, under the name n
HasResult(rs, n) == \E p \in DOMAIN rs : rs[p].repo_name = n
HasFailure(rs, n) == \E p \in DOMAIN rs : rs[p].repo_name = n /\ ~rs[p].success

\* a build or a test of repository r failed
FailedRepo(rs, r) == HasFailure(rs, BuildName(r)) \/ HasFailure(rs, TestName(r))

\* some command of repository r was started
Started(r) == \E ph \in Phases : <<r, ph>> \in ran

\* the thread of repository r found the flag unset at its check: it then
\* started its first command at once
PassedCheck(r) == <<r, "clean">> \in ran \/ <<r, "build">> \in ran

Returned == pc = "done"

\* the working set of level l of the parallel engine
WorkingLevel(l) == Range(repos_in_level(levels[l]))

(***************************************************************************)
(* Properties of the engines (under Spec).                                 *)
(***************************************************************************)
\* C6: in the sequential engine, once the build or the test of the
\* repository at position k of the working order has failed, no clean,
\* build or test command is run for a repository at a later position, and
\* the report that is returned has all_passed = false.
C6_SequentialShortCircuit ==
    ~args.parallel =>
        \A k \in DOMAIN repos_to_build :
           FailedRepo(results, repos_to_build[k]) =>
              /\ \A j \in DOMAIN repos_to_build : j > k => ~Started(repos_to_build[j])
              /\ Returned => (ret.tag = "Ok" /\ ~ret.all_passed)

\* the second of three repositories failed and the third, which does not
\* depend on it, was left out of the returned report
C6_Witness ==
    /\ ~args.parallel
    /\ Returned
    /\ Len(repos_to_build) = 3
    /\ FailedRepo(ret.results, repos_to_build[2])
    /\ repos_to_build[2] \notin Reach(manifest, repos_to_build[3])
    /\ ~HasResult(ret.results, BuildName(repos_to_build[3]))

\* C7 (as claimed): the report of the sequential engine has exactly k
\* entries when the build at position k failed, and exactly k + 1 when the
\* test at position k failed, with and without run_tests.
C7_EntriesAsClaimed ==
    (~args.parallel /\ Returned /\ ret.tag = "Ok") =>
        \A k \in DOMAIN repos_to_build :
           /\ HasFailure(ret.results, BuildName(repos_to_build[k]))
                 => Len(ret.results) = k
           /\ HasFailure(ret.results, TestName(repos_to_build[k]))
                 => Len(ret.results) = k + 1

\* C7 (amended): every repository before position k has left one entry,
\* or two (build and test) when run_tests is set; so the report has k
\* entries (run_tests unset) or 2k - 1 entries (run_tests set) when the
\* build at position k failed, and 2k entries when the test at position k
\* failed.
C7_EntriesCounted ==
    (~args.parallel /\ Returned /\ ret.tag = "Ok") =>
        \A k \in DOMAIN repos_to_build :
           /\ HasFailure(ret.results, BuildName(repos_to_build[k]))
                 => Len(ret.results) = IF args.run_tests THEN 2 * k - 1 ELSE k
           /\ HasFailure(ret.results, TestName(repos_to_build[k]))
                 => Len(ret.results) = 2 * k

\* with run_tests set, a build failed at the second position or later
C7_Witness ==
    /\ ~args.parallel
    /\ Returned
    /\ ret.tag = "Ok"
    /\ args.run_tests
    /\ \E k \in DOMAIN repos_to_build :
          k >= 2 /\ HasFailure(ret.results, BuildName(repos_to_build[k]))

\* C8 (as claimed): in the parallel engine, when a repository of a level
\* failed, every other repository dispatched in that level has a build
\* result in the report.
C8_AllSiblingsReport ==
    (args.parallel /\ Returned /\ ret.tag = "Ok") =>
        \A l \in DOMAIN levels :
           \A r, q \in WorkingLevel(l) :
              (r # q /\ FailedRepo(ret.results, q)) =>
                 HasResult(ret.results, BuildName(r))

\* C8 (amended): when a repository of a level failed, every other
\* repository of that level whose thread found the flag unset at its
\* check has a build result in the report.
C8_StartedSiblingsReport ==
    (args.parallel /\ Returned /\ ret.tag = "Ok") =>
        \A l \in DOMAIN levels :
           \A r, q \in WorkingLevel(l) :
              (r # q /\ FailedRepo(ret.results, q) /\ PassedCheck(r)) =>
                 HasResult(ret.results, BuildName(r))

\* a sibling's build result was pushed after the failed result of its level
C8_Witness ==
    /\ args.parallel
    /\ Returned
    /\ \E l \in DOMAIN levels :
          \E r, q \in WorkingLevel(l) :
             /\ r # q
             /\ \E p1, p2 \in DOMAIN ret.results :
                   /\ p1 < p2
                   /\ ret.results[p1].repo_name = BuildName(q)
                   /\ ~ret.results[p1].success
                   /\ ret.results[p2].repo_name = BuildName(r)

\* C9: in the parallel engine, once a build or a test of a repository of
\* level L has failed, no repository of a later level runs a command or
\* gets a result.
C9_NoLaterLevel ==
    args.parallel =>
        \A l \in DOMAIN levels :
           (\E q \in WorkingLevel(l) : FailedRepo(results, q)) =>
              \A m \in DOMAIN levels :
                 m > l =>
                    \A r \in Range(levels[m]) :
                       /\ ~Started(r)
                       /\ ~HasResult(results, BuildName(r))
                       /\ ~HasResult(results, TestName(r))

\* a test failed in a level of two repositories, the next level holds a
\* repository of the working set, and the call has returned
C9_Witness ==
    /\ args.parallel
    /\ Returned
    /\ \E l \in DOMAIN levels :
          /\ Cardinality(WorkingLevel(l)) = 2
          /\ \E q \in WorkingLevel(l) : HasFailure(ret.results, TestName(q))
          /\ l + 1 \in DOMAIN levels
          /\ WorkingLevel(l + 1) # {}

\* C10 (as claimed): a build for a target that is not in the manifest
\* runs no command and returns the NotFound error, in both engines.
\* Stated for the manifests that resolve, where no cycle error comes first.
C10_MissingTargetNotFound ==
    (/\ args.repo_name # None
     /\ find_repo(manifest, args.repo_name) = 0
     /\ Acyclic(manifest)) =>
        /\ ran = {}
        /\ Returned => (ret.tag = "Err" /\ ret.err = "NotFound")


(***************************************************************************)
(* C11.  When the dependency graph of the manifest has a cycle, build and  *)
(* build_parallel run no clean, build or test command and record no        *)
(* result, and what they return is the cycle error, not a report, whatever *)
(* the target and the flags.                                               *)
(***************************************************************************)
C11_CycleBeforeCommands ==
    ~Acyclic(manifest) =>
        /\ ran = {}
        /\ results = <<>>
        /\ Returned => ret = Error("Cycle")

\* build_parallel has returned the cycle error on a cyclic manifest, called
\* with a target the manifest does not hold and with both flags set
C11_Witness ==
    /\ ~Acyclic(manifest)
    /\ args.parallel
    /\ Returned
    /\ ret = Error("Cycle")
    /\ args.repo_name = Ghost
    /\ args.run_tests
    /\ args.clean_first

\* rs holds a successful result under the name n
HasSuccess(rs, n) == \E p \in DOMAIN rs : rs[p].repo_name = n /\ rs[p].success

\* the repositories the call works on: the working order of the sequential
\* engine, the repositories the level filter of the parallel engine lets pass
WorkingSet ==
    IF args.parallel
    THEN {r \in DOMAIN manifest :
             ~target_repos.some \/ manifest[r].name \in target_repos.names}
    ELSE Range(repos_to_build)

(***************************************************************************)
(* C12.  In both engines the build command of a repository is started      *)
(* only when every dependency of it that is in the working set has a       *)
(* successful build result in the results (and a successful test result    *)
(* when tests were requested).  Hence a repository below which a build or  *)
(* a test failed, directly or transitively, never gets a result, and the   *)
(* call then returns a report whose all_passed is false.                   *)
(***************************************************************************)
C12_DependenciesFirst ==
    /\ \A r \in DOMAIN manifest :
          <<r, "build">> \in ran =>
              \A d \in DepsOf(manifest, r) \cap WorkingSet :
                  /\ HasSuccess(results, BuildName(d))
                  /\ args.run_tests => HasSuccess(results, TestName(d))
    /\ \A r \in DOMAIN manifest :
          \A d \in Reach(manifest, r) :
              FailedRepo(results, d) =>
                  /\ ~HasResult(results, BuildName(r))
                  /\ ~HasResult(results, TestName(r))
                  /\ Returned => ret.tag = "Ok" /\ ~ret.all_passed
                                 /\ ~HasResult(ret.results, BuildName(r))

\* a parallel build with tests has returned: the build of a repository was
\* started after the build and the test of its dependency succeeded, it
\* failed, and a repository that depends on it has no result
C12_Witness ==
    /\ Returned
    /\ args.parallel
    /\ args.run_tests
    /\ \E r, d, e \in DOMAIN manifest :
          /\ d \in DepsOf(manifest, r)
          /\ e \in DepsOf(manifest, d)
          /\ HasSuccess(ret.results, BuildName(e))
          /\ HasSuccess(ret.results, TestName(e))
          /\ <<d, "build">> \in ran
          /\ HasFailure(ret.results, BuildName(d))
          /\ ~Started(r)
          /\ ~HasResult(ret.results, BuildName(r))
    /\ ~ret.all_passed

(***************************************************************************)
(* C13.  In both engines, when the clean command of a repository fails     *)
(* (for each of the three kinds of failure), the build command of that     *)
(* repository is started all the same, before the call returns, and no     *)
(* result is recorded for the clean step: the results hold only build and  *)
(* test results.                                                           *)
(***************************************************************************)
C13_CleanFailureRecovered ==
    /\ \A p \in DOMAIN results :
          \E r \in DOMAIN manifest :
              results[p].repo_name \in {BuildName(r), TestName(r)}
    /\ \A r \in DOMAIN manifest :
          (<<r, "clean_err">> \in ran /\ Returned) => <<r, "build">> \in ran

\* the target, when one is given, is a repository of the manifest
TargetExists == args.repo_name = None \/ find_repo(manifest, args.repo_name) # 0

(***************************************************************************)
(* C14.  Once the order or the levels were resolved and the target, if     *)
(* any, is a repository of the manifest, build and build_parallel return   *)
(* a report and never an error, whatever clean, build or test command      *)
(* fails; the report holds the results recorded up to the point the engine *)
(* stopped, and among them a result for every build that was started.      *)
(***************************************************************************)
C14_AlwaysAReport ==
    (Acyclic(manifest) /\ TargetExists /\ Returned) =>
        /\ ret.tag = "Ok"
        /\ ret.results = results
        /\ \A r \in DOMAIN manifest :
              <<r, "build">> \in ran => HasResult(ret.results, BuildName(r))

\* the messages of the three kinds of failure of a command
FailureTexts == {"empty command", "failed to run", "command failed"}

\* the name of the result of phase ph of repository r
ResultName(r, ph) == IF ph = "test" THEN TestName(r) ELSE BuildName(r)

\* the command of phase ph of repository r has returned and its result was
\* handed to the results: in the parallel engine the thread of r is neither
\* running the command nor about to push its result
Recorded(r, ph) ==
    /\ <<r, ph>> \in ran
    /\ ~(r \in DOMAIN workers /\ workers[r].pc \in {ph, "push_" \o ph})

(***************************************************************************)
(* C15.  For the build and the test phase, a command that fails, whatever  *)
(* the kind of failure (no token in the command string, process not        *)
(* launched, non-zero exit), gives exactly one result for that repository  *)
(* and phase, a failed one that carries the message of the failure; the    *)
(* result is in the report the call returns, and the call returns a        *)
(* report, not an error.                                                   *)
(***************************************************************************)
C15_FailureIsOneFailedResult ==
    /\ \A r \in DOMAIN manifest, ph \in {"build", "test"} :
          Cardinality({p \in DOMAIN results :
                          results[p].repo_name = ResultName(r, ph)})
              = IF Recorded(r, ph) THEN 1 ELSE 0
    /\ \A p \in DOMAIN results :
          /\ results[p].output \in FailureTexts \cup {"stdout"}
          /\ results[p].output \in FailureTexts <=> ~results[p].success
    /\ \A r \in DOMAIN workers :
          workers[r].pc \in {"push_build", "push_test"} =>
              (workers[r].result.output \in FailureTexts
                  <=> ~workers[r].result.success)
    /\ (Returned /\ \E p \in DOMAIN results : ~results[p].success) =>
          ret.tag = "Ok" /\ ret.results = results

\* a parallel build with tests has returned a report that holds the failed
\* build result of a repository whose command had no token and the failed
\* test result of another whose test process could not be launched
C15_Witness ==
    /\ Returned
    /\ args.parallel
    /\ ret.tag = "Ok"
    /\ \E r, q \in DOMAIN manifest :
          /\ r # q
          /\ \E p \in DOMAIN ret.results :
                ret.results[p] = BuildResult(BuildName(r), FALSE, "empty command")
          /\ \E p \in DOMAIN ret.results :
                ret.results[p] = BuildResult(TestName(q), FALSE, "failed to run")

(***************************************************************************)
(* C16.  In every report build or build_parallel returns, all_passed is    *)
(* true exactly when no entry of the report has its success flag false:    *)
(* the conjunction of the flags, true for a report without entries.        *)
(***************************************************************************)
C16_AllPassedIsConjunction ==
    (Returned /\ ret.tag = "Ok") =>
        /\ ret.all_passed <=> ~\E p \in DOMAIN ret.results : ~ret.results[p].success
        /\ ret.results = <<>> => ret.all_passed

\* a report was returned with a passed and a failed entry, all_passed false
C16_Witness ==
    /\ Returned
    /\ ret.tag = "Ok"
    /\ \E p, q \in DOMAIN ret.results :
          ret.results[p].success /\ ~ret.results[q].success
    /\ ~ret.all_passed

\* in rs a test result of a repository comes after a successful build
\* result of that repository
TestAfterBuild(rs) ==
    \A p \in DOMAIN rs, r \in DOMAIN manifest :
        rs[p].repo_name = TestName(r) =>
            \E q \in 1..(p - 1) :
                rs[q].repo_name = BuildName(r) /\ rs[q].success

(***************************************************************************)
(* C17.  In both engines a test result of repository R, named "R (test)",  *)
(* is recorded only if run_tests was requested and the build of R          *)
(* succeeded, and it stands after the successful build result of R in the  *)
(* results and in the report; with run_tests false no test command is      *)
(* started and no test result is recorded.                                 *)
(***************************************************************************)
C17_TestOnlyAfterGoodBuild ==
    /\ TestAfterBuild(results)
    /\ TestAfterBuild(ret.results)
    /\ \A r \in DOMAIN manifest :
          (<<r, "test">> \in ran \/ HasResult(results, TestName(r))) =>
              args.run_tests /\ HasSuccess(results, BuildName(r))

\* the sequential engine has returned a report in which a test result
\* stands after the successful build result of its repository
C17_Witness ==
    /\ Returned
    /\ ~args.parallel
    /\ args.run_tests
    /\ \E r \in DOMAIN manifest :
          \E q, p \in DOMAIN ret.results :
              /\ q < p
              /\ ret.results[q].repo_name = BuildName(r)
              /\ ret.results[q].success
              /\ ret.results[p].repo_name = TestName(r)

\* the repository a result of the name n is about
RepoOfResult(n) ==
    CHOOSE r \in DOMAIN manifest : n \in {BuildName(r), TestName(r)}

\* the level of the repository the entry p of rs is about
LevelOfEntry(rs, p) == LevelIn(levels, RepoOfResult(rs[p].repo_name))

\* in rs no result of a level stands after a result of a later level
OrderedByLevel(rs) ==
    \A p, q \in DOMAIN rs : p < q => LevelOfEntry(rs, p) <= LevelOfEntry(rs, q)

(***************************************************************************)
(* C18.  In a parallel build the results of the repositories of one level  *)
(* stand in any order, but every result of a repository of level L is in   *)
(* the results before the first result of a repository of a later level is *)
(* appended: in the results and in the report no result of a level stands  *)
(* after a result of a later level.                                        *)
(***************************************************************************)
C18_LevelsInOrder ==
    args.parallel => OrderedByLevel(results) /\ OrderedByLevel(ret.results)

\* a parallel build has returned a report where the results of two
\* repositories of one level interleave and a result of a later level
\* follows them
C18_Witness ==
    /\ Returned
    /\ args.parallel
    /\ \E a, b, c \in DOMAIN manifest :
          /\ a # b
          /\ \E l, m \in DOMAIN levels :
                /\ l < m
                /\ {a, b} \subseteq Range(levels[l])
                /\ c \in Range(levels[m])
          /\ \E p, q, s, t \in DOMAIN ret.results :
                /\ p < q /\ q < s /\ s < t
                /\ ret.results[p].repo_name = BuildName(a)
                /\ ret.results[q].repo_name = BuildName(b)
                /\ ret.results[s].repo_name = TestName(a)
                /\ ret.results[t].repo_name = BuildName(c)

\* no clean, build or test command has failed
NoCommandFailed ==
    /\ \A p \in DOMAIN results : results[p].success
    /\ \A r \in DOMAIN manifest : <<r, "clean_err">> \notin ran

\* the target and the repositories reachable from it by depends_on edges
TargetClosure ==
    LET t == find_repo(manifest, args.repo_name)
    IN  {t} \cup Reach(manifest, t)

NoDependencies(repos) == \A a \in DOMAIN repos : DepsOf(repos, a) = {}

\* C21 (as claimed): for every manifest in which no repository depends on a
\* repository, resolve_build_levels returns exactly one level, and that
\* level holds all the repositories.
C21_OneLevelAsClaimed ==
    (out.fn = "resolve_build_levels" /\ NoDependencies(manifest)) =>
        /\ out.val.ok
        /\ Len(out.val.levels) = 1
        /\ Range(out.val.levels[1]) = DOMAIN manifest

\* C21 (amended): for every manifest of at least one repository in which no
\* repository depends on a repository, resolve_build_levels returns exactly
\* one level, which holds every repository once, in manifest order; for the
\* manifest without repositories it returns no level.
C21_OneLevelUnlessEmpty ==
    (out.fn = "resolve_build_levels" /\ NoDependencies(manifest)) =>
        /\ out.val.ok
        /\ out.val.levels = IF manifest = <<>>
                            THEN <<>>
                            ELSE <<[k \in DOMAIN manifest |-> k]>>

\* the levels of three repositories, one of which names a repository the
\* manifest does not hold
C21_Witness ==
    /\ out.fn = "resolve_build_levels"
    /\ NoDependencies(manifest)
    /\ Len(manifest) = 3
    /\ \E a \in DOMAIN manifest : manifest[a].depends_on # <<>>
    /\ out.val.levels = <<<<1, 2, 3>>>>

\* the manifest with every name that is the name of no repository taken out
\* of every depends_on list
WithoutUnresolved(repos) ==
    [k \in DOMAIN repos |->
        RepoConfig(repos[k].name,
                   SelectSeq(repos[k].depends_on,
                             LAMBDA n : position(repos, n) # 0))]

(***************************************************************************)
(* C22.  A depends_on name that is the name of no repository of the        *)
(* manifest is ignored: resolve_build_order and resolve_build_levels       *)
(* return what they return for the manifest with these names removed from  *)
(* every depends_on list, the same order, the same levels, and an error    *)
(* only where that manifest gives the same error.                          *)
(***************************************************************************)
C22_UnresolvedIgnored ==
    /\ out.fn = "resolve_build_order" =>
          out.val = resolve_build_order(WithoutUnresolved(manifest))
    /\ out.fn = "resolve_build_levels" =>
          out.val = resolve_build_levels(WithoutUnresolved(manifest))

\* the levels of a manifest of three repositories, two levels, where a
\* repository with a dependency also names a repository that does not exist
C22_Witness ==
    /\ out.fn = "resolve_build_levels"
    /\ out.val.ok
    /\ Len(manifest) = 3
    /\ Len(out.val.levels) = 2
    /\ \E a \in DOMAIN manifest :
          /\ DepsOf(manifest, a) # {}
          /\ Ghost \in Range(manifest[a].depends_on)
    /\ WithoutUnresolved(manifest) # manifest

\* the thread of repository r has ended, or was joined
ThreadEnded(r) == r \notin DOMAIN workers \/ workers[r].pc = "done"

(***************************************************************************)
(* C23.  In the parallel engine the flag cancels no thread that is past    *)
(* its check of the flag: every thread that passed the check has, when it  *)
(* ends, recorded its build result, and its test result too when tests     *)
(* were requested and its build succeeded, whether or not the flag was set *)
(* in the meantime; these results are in the report.                       *)
(***************************************************************************)
C23_NoCancellation ==
    args.parallel =>
        \A r \in DOMAIN manifest :
            (PassedCheck(r) /\ ThreadEnded(r)) =>
                /\ HasResult(results, BuildName(r))
                /\ (args.run_tests /\ HasSuccess(results, BuildName(r)))
                      => HasResult(results, TestName(r))
                /\ (Returned /\ args.run_tests
                             /\ HasSuccess(ret.results, BuildName(r)))
                      => HasResult(ret.results, TestName(r))

\* a parallel build with tests has returned a report in which the failed
\* build result of a repository is followed by the build result and the
\* test result of a repository of the same level
C23_Witness ==
    /\ Returned
    /\ args.parallel
    /\ args.run_tests
    /\ \E l \in DOMAIN levels :
          \E r, q \in WorkingLevel(l) :
              \E p, s, t \in DOMAIN ret.results :
                  /\ p < s /\ s < t
                  /\ ret.results[p].repo_name = BuildName(q)
                  /\ ~ret.results[p].success
                  /\ ret.results[s].repo_name = BuildName(r)
                  /\ ret.results[s].success
                  /\ ret.results[t].repo_name = TestName(r)

(***************************************************************************)
(* C24.  In the parallel engine the flag is read before a level is         *)
(* dispatched and when a thread starts.  A step taken with the flag set    *)
(* spawns no thread and moves the loop to no further level; and a thread   *)
(* that makes its first step with the flag set ends with that step: it     *)
(* starts no clean, build or test command and records no result.           *)
(***************************************************************************)
C24_FlagReadBeforeWork ==
    [][(args.parallel /\ failed) =>
          /\ (pc = "par" => pc' = "report" /\ workers' = workers /\ i' = i)
          /\ \A r \in DOMAIN workers :
                (workers[r].pc = "check" /\ workers'[r].pc # "check") =>
                    /\ workers'[r].pc = "done"
                    /\ ran' = ran
                    /\ results' = results]_vars

\* a parallel build has returned: in a level of two repositories one failed
\* and the other started no command and has no result, and the repository
\* of the next level started no command either
C24_Witness ==
    /\ Returned
    /\ args.parallel
    /\ failed
    /\ \E l \in DOMAIN levels :
          /\ \E q, r \in WorkingLevel(l) :
                /\ FailedRepo(ret.results, q)
                /\ ~Started(r)
                /\ ~HasResult(ret.results, BuildName(r))
          /\ l + 1 \in DOMAIN levels
          /\ \E c \in WorkingLevel(l + 1) : ~Started(c)

\* some thread exists
Live == workers # <<>>

(***************************************************************************)
(* C25.  In the parallel engine threads of two levels never exist at the   *)
(* same time: while threads exist the main thread waits at the join, and   *)
(* the threads are those of the working-set repositories of the current    *)
(* level, one for each; threads are spawned only when no thread exists,    *)
(* and they cease to exist only when every one of them has ended.          *)
(***************************************************************************)
C25_OneLevelAtATime ==
    /\ [](Live =>
            /\ args.parallel
            /\ pc = "join"
            /\ i \in DOMAIN levels
            /\ DOMAIN workers = WorkingLevel(i)
            /\ Cardinality(DOMAIN workers) = Len(repos_in_level(levels[i])))
    /\ [][/\ (DOMAIN workers' # DOMAIN workers /\ workers' # <<>>) => ~Live
          /\ (i' # i /\ Live) =>
                /\ workers' = <<>>
                /\ \A r \in DOMAIN workers : workers[r].pc = "done"]_vars

\* the two threads of the second level are both running their build command
C25_Witness ==
    /\ args.parallel
    /\ pc = "join"
    /\ i = 2
    /\ Cardinality(DOMAIN workers) = 2
    /\ \A r \in DOMAIN workers : workers[r].pc = "build"

(***************************************************************************)
(* C26.  In the parallel engine a thread whose clean, build or test        *)
(* command is running holds the guard of neither mutex: a guard is held    *)
(* only at a read of the flag, a write of the flag or a push of a result,  *)
(* it is the guard of the one mutex that step needs, and no two threads    *)
(* hold the guard of one mutex.  (Hence the commands of two threads of a   *)
(* level run at the same time.)                                            *)
(***************************************************************************)
C26_NoGuardAcrossCommand ==
    /\ \A r \in DOMAIN workers :
          /\ workers[r].pc \in {"clean", "build", "test"} => workers[r].holds = {}
          /\ workers[r].holds # {} =>
                /\ workers[r].pc \in {"check", "push_build", "set_failed", "push_test"}
                /\ workers[r].holds = {MutexAt(workers[r].pc)}
    /\ \A r, q \in DOMAIN workers :
          r # q => workers[r].holds \cap workers[q].holds = {}

\* the build command of a thread is running while the other thread of the
\* level, whose test command has returned, holds the guard of results
C26_Witness ==
    \E r, q \in DOMAIN workers :
        /\ workers[r].pc = "build"
        /\ workers[q].pc = "push_test"
        /\ workers[q].holds = {"results"}

\* the command of phase ph of repository r is started by the step
Starts(r, ph) == <<r, ph>> \in ran' /\ <<r, ph>> \notin ran

(***************************************************************************)
(* C27.  For one repository in one call of either engine the phases run in *)
(* the order clean, build, test.  The clean command is started only with   *)
(* clean_first set and before the build and the test of the repository;    *)
(* the build command is started by a later step than the clean command,    *)
(* and before the test; the test command is started only with run_tests    *)
(* set and when the successful build result of the repository is recorded; *)
(* no command of a phase is started twice, and once a build or a test of   *)
(* the repository has failed no command of it is started.                  *)
(***************************************************************************)
C27_PhasesInOrder ==
    [][\A r \in DOMAIN manifest :
          /\ Starts(r, "clean") =>
                /\ args.clean_first
                /\ <<r, "build">> \notin ran
                /\ <<r, "test">> \notin ran
          /\ Starts(r, "build") =>
                /\ <<r, "clean">> \in ran' => <<r, "clean">> \in ran
                /\ <<r, "test">> \notin ran'
                /\ ~HasResult(results, BuildName(r))
          /\ Starts(r, "test") =>
                /\ args.run_tests
                /\ <<r, "build">> \in ran
                /\ HasSuccess(results', BuildName(r))
                /\ ~HasResult(results, TestName(r))
          /\ FailedRepo(results, r) =>
                \A ph \in Phases : ~Starts(r, ph)]_vars

\* the sequential engine has returned: the clean, the build and the test
\* command of a repository were run, and the test failed
C27_Witness ==
    /\ Returned
    /\ ~args.parallel
    /\ \E r \in DOMAIN manifest :
          /\ {<<r, "clean">>, <<r, "build">>, <<r, "test">>} \subseteq ran
          /\ HasSuccess(ret.results, BuildName(r))
          /\ HasFailure(ret.results, TestName(r))

(***************************************************************************)
(* C28.  When resolve_build_order fails, the repository its error names is *)
(* a repository of the manifest that reaches itself by depends_on edges:   *)
(* a member of a cycle, not a repository that only depends on one.         *)
(***************************************************************************)
C28_ErrorNamesCycleMember ==
    (out.fn = "resolve_build_order" /\ ~out.val.ok) =>
        LET a == position(manifest, out.val.err)
        IN  a # 0 /\ a \in Reach(manifest, a)

\* the error names the member of a cycle in a manifest whose first
\* repository depends on the cycle and is not on it
C28_Witness ==
    /\ out.fn = "resolve_build_order"
    /\ ~out.val.ok
    /\ Len(manifest) >= 2
    /\ 1 \notin Reach(manifest, 1)
    /\ position(manifest, out.val.err) \in Reach(manifest, 1)

\* no dependency path leads from a to b or from b to a
Independent(repos, a, b) ==
    a # b /\ a \notin Reach(repos, b) /\ b \notin Reach(repos, a)

\* C29 (as claimed): of two repositories with no dependency path between
\* them, the one that comes first in the manifest comes first in the order
\* resolve_build_order returns.
C29_TiesByPositionAsClaimed ==
    (out.fn = "resolve_build_order" /\ out.val.ok) =>
        \A a, b \in DOMAIN manifest :
            (a < b /\ Independent(manifest, a, b)) =>
                IndexIn(out.val.order, a) < IndexIn(out.val.order, b)

\* C29 (amended): of two repositories with no dependency path between
\* them, the one that comes first in the manifest comes first in the order,
\* unless the later one is a dependency, direct or transitive, of a
\* repository that precedes it in the manifest: the walk then reaches it
\* before its turn.
C29_TiesByPositionUnlessPulled ==
    (out.fn = "resolve_build_order" /\ out.val.ok) =>
        \A a, b \in DOMAIN manifest :
            (/\ a < b
             /\ Independent(manifest, a, b)
             /\ \A c \in 1..(b - 1) : b \notin Reach(manifest, c)) =>
                IndexIn(out.val.order, a) < IndexIn(out.val.order, b)

\* three repositories, the second and the third independent of the first
\* and in manifest order after it, the third depending on the second
C29_Witness ==
    /\ out.fn = "resolve_build_order"
    /\ out.val.ok
    /\ Len(manifest) = 3
    /\ Independent(manifest, 1, 2)
    /\ Independent(manifest, 1, 3)
    /\ 2 \in DepsOf(manifest, 3)
    /\ out.val.order = <<1, 2, 3>>

\* the names the depends_on lists of the manifest hold
DependencyNames(repos) == UNION {Range(repos[k].depends_on) : k \in DOMAIN repos}

\* what bounds the turns the loop of collect_deps has left: two for each
\* name not yet recorded, one for each entry of the stack
WalkMeasure(repos, acc) ==
    2 * Cardinality(DependencyNames(repos) \ Range(acc.deps)) + Len(acc.stack)

(***************************************************************************)
(* C30.  collect_deps terminates on every manifest, cycles and             *)
(* self-dependencies included: a name is recorded and pushed on the stack  *)
(* by the loop at most once, every entry of the stack is the start name or *)
(* a recorded name, and every turn of the loop lowers a measure that is    *)
(* never negative; what the loop returns is what collect_deps returns.     *)
(***************************************************************************)
C30_WalkTerminates ==
    /\ [](out.fn = "walk" =>
            /\ NoDuplicates(out.val.deps)
            /\ Range(out.val.deps) \subseteq DependencyNames(manifest)
            /\ Range(out.val.stack) \subseteq Range(out.val.deps) \cup {out.arg}
            /\ Len(out.val.stack) <= Len(out.val.deps) + 1)
    /\ [][/\ (out.fn = "walk" /\ out'.fn = "walk") =>
                WalkMeasure(manifest', out'.val) < WalkMeasure(manifest, out.val)
          /\ (out.fn = "walk" /\ out'.fn = "collect_deps") =>
                out'.val = collect_deps(manifest, out.arg)]_vars

\* the walk from a repository on a cycle of two has ended: both names are
\* recorded, the start name among them
C30_Witness ==
    /\ out.fn = "walk"
    /\ out.val.stack = <<>>
    /\ ~Acyclic(manifest)
    /\ out.arg \in Range(out.val.deps)
    /\ Len(out.val.deps) = 2

(***************************************************************************)
(* C31 (as claimed).  A scoped build whose target is not a repository of   *)
(* the manifest fails with NotFound before any walk of the graph: when the *)
(* manifest also has a dependency cycle, what the call returns is the      *)
(* NotFound error and not the cycle error, and no command was run.         *)
(***************************************************************************)
C31_NotFoundBeforeCycle ==
    (/\ args.repo_name # None
     /\ find_repo(manifest, args.repo_name) = 0
     /\ ~Acyclic(manifest)
     /\ Returned) =>
        /\ ret = Error("NotFound")
        /\ ran = {}

\* the entries of rs that failed
FailedEntries(rs) == {p \in DOMAIN rs : ~rs[p].success}

(***************************************************************************)
(* C32.  In the results of the parallel engine, and so in every report it  *)
(* returns, all failed results are about repositories of one level, and    *)
(* that level is the last one that produced a result: no result is about   *)
(* a repository of a later level.                                          *)
(***************************************************************************)
C32_FailuresInLastLevel ==
    args.parallel =>
        /\ \A p, q \in FailedEntries(results) :
              LevelOfEntry(results, p) = LevelOfEntry(results, q)
        /\ \A p \in FailedEntries(results) :
              \A q \in DOMAIN results :
                  LevelOfEntry(results, q) <= LevelOfEntry(results, p)
        /\ Returned => (ret.tag = "Ok" => ret.results = results)

\* a parallel build has returned a report with failed results of two
\* repositories of one level, after a successful result of an earlier level
C32_Witness ==
    /\ args.parallel
    /\ Returned
    /\ ret.tag = "Ok"
    /\ \E p, q, s \in DOMAIN ret.results :
          /\ p # q
          /\ ~ret.results[p].success
          /\ ~ret.results[q].success
          /\ RepoOfResult(ret.results[p].repo_name)
                 # RepoOfResult(ret.results[q].repo_name)
          /\ ret.results[s].success
          /\ LevelOfEntry(ret.results, s) < LevelOfEntry(ret.results, p)

(***************************************************************************)
(* C33.  The results of the sequential engine, and so every report it      *)
(* returns, hold at most one failed result, and when they hold one it is   *)
(* the last entry.                                                         *)
(***************************************************************************)
C33_OneFailureAtTheEnd ==
    ~args.parallel =>
        /\ Cardinality(FailedEntries(results)) <= 1
        /\ FailedEntries(results) \subseteq {Len(results)}
        /\ (Returned /\ ret.tag = "Ok") =>
              /\ Cardinality(FailedEntries(ret.results)) <= 1
              /\ FailedEntries(ret.results) \subseteq {Len(ret.results)}

\* a sequential build with tests has returned a report of three entries or
\* more whose last entry, a test result, is the only failed one, while a
\* repository of the working order was never started
C33_Witness ==
    /\ ~args.parallel
    /\ Returned
    /\ ret.tag = "Ok"
    /\ Len(ret.results) >= 3
    /\ FailedEntries(ret.results) = {Len(ret.results)}
    /\ \E r \in DOMAIN manifest :
          ret.results[Len(ret.results)].repo_name = TestName(r)
    /\ \E r \in Range(repos_to_build) : <<r, "build">> \notin ran

(***************************************************************************)
(* C34.  In the parallel engine the shared failure flag is monotonic and   *)
(* consistent with the results: no step resets it once it is set, whenever *)
(* it is set the results already hold a failed entry, and when the call    *)
(* returns a report its all_passed is the negation of the flag.            *)
(***************************************************************************)
C34_FlagMonotonicAndConsistent ==
    /\ [][args.parallel => (failed => failed')]_vars
    /\ [](args.parallel =>
             /\ failed => FailedEntries(results) # {}
             /\ (Returned /\ ret.tag = "Ok") => (ret.all_passed = ~failed))

\* a parallel build has returned a report that did not pass, the flag being
\* set by a failed test, beside the passed test of another repository
C34_Witness ==
    /\ args.parallel
    /\ Returned
    /\ ret.tag = "Ok"
    /\ failed
    /\ ~ret.all_passed
    /\ \E r \in DOMAIN manifest : HasFailure(ret.results, TestName(r))
    /\ \E r \in DOMAIN manifest : HasSuccess(ret.results, TestName(r))

\* the entries of rs under the name n
EntriesNamed(rs, n) == {p \in DOMAIN rs : rs[p].repo_name = n}

(***************************************************************************)
(* C35.  Within one call of either engine each repository gets at most    *)
(* one build result and at most one test result, a command of it runs      *)
(* only while it has no result of that phase, and the results only grow:   *)
(* a step leaves them as they are or appends one entry.                    *)
(***************************************************************************)
C35_OneResultPerPhase ==
    /\ [][\/ results' = results
          \/ /\ Len(results') = Len(results) + 1
             /\ SubSeq(results', 1, Len(results)) = results]_vars
    /\ [](\A r \in DOMAIN manifest :
             /\ Cardinality(EntriesNamed(results, BuildName(r))) <= 1
             /\ Cardinality(EntriesNamed(results, TestName(r))) <= 1
             /\ (r \in DOMAIN workers /\ workers[r].pc \in {"clean", "build", "push_build"})
                    => ~HasResult(results, BuildName(r))
             /\ (r \in DOMAIN workers /\ workers[r].pc \in {"test", "push_test"})
                    => ~HasResult(results, TestName(r))
             /\ (pc = "seq" /\ i <= Len(repos_to_build) /\ repos_to_build[i] = r) =>
                    /\ phase \in {"clean", "build"} => ~HasResult(results, BuildName(r))
                    /\ ~HasResult(results, TestName(r)))

\* a build with tests has returned a report with the build and the test
\* result of each of three repositories, six entries
C35_Witness ==
    /\ Returned
    /\ ret.tag = "Ok"
    /\ Len(manifest) = 3
    /\ Len(ret.results) = 6
    /\ \A r \in DOMAIN manifest :
          /\ Cardinality(EntriesNamed(ret.results, BuildName(r))) = 1
          /\ Cardinality(EntriesNamed(ret.results, TestName(r))) = 1

\* the places <<level, position>> of lvls that hold a
PlacesHolding(lvls, a) ==
    {pl \in (DOMAIN lvls) \X (1..Len(manifest)) :
        pl[2] \in DOMAIN lvls[pl[1]] /\ lvls[pl[1]][pl[2]] = a}

(***************************************************************************)
(* C36.  On an acyclic manifest the order resolve_build_order returns is a *)
(* permutation of the repositories of the manifest, each of them once, and *)
(* the levels resolve_build_levels returns partition them: every           *)
(* repository stands at one place of one level, and the levels hold        *)
(* nothing else.                                                           *)
(***************************************************************************)
C36_PermutationAndPartition ==
    Acyclic(manifest) =>
        /\ out.fn = "resolve_build_order" =>
              /\ out.val.ok
              /\ Len(out.val.order) = Len(manifest)
              /\ Range(out.val.order) = DOMAIN manifest
              /\ NoDuplicates(out.val.order)
        /\ out.fn = "resolve_build_levels" =>
              /\ out.val.ok
              /\ \A a \in DOMAIN manifest :
                    Cardinality(PlacesHolding(out.val.levels, a)) = 1
              /\ \A l \in DOMAIN out.val.levels :
                    /\ Len(out.val.levels[l]) <= Len(manifest)
                    /\ Range(out.val.levels[l]) \subseteq DOMAIN manifest

\* the levels of a manifest of three repositories where two repositories
\* depend on the third and one of them on a name that is no repository
C36_Witness ==
    /\ out.fn = "resolve_build_levels"
    /\ out.val.ok
    /\ Len(manifest) = 3
    /\ \E a, b, c \in DOMAIN manifest :
          /\ a # b
          /\ c \in DepsOf(manifest, a) \cap DepsOf(manifest, b)
          /\ Ghost \in Range(manifest[a].depends_on)

\* the number of repositories on the longest chain of resolvable
\* dependencies that starts at a (the graph of repos being acyclic)
RECURSIVE ChainFrom(_, _)
ChainFrom(repos, a) ==
    IF DepsOf(repos, a) = {} THEN 1
    ELSE 1 + Max({ChainFrom(repos, d) : d \in DepsOf(repos, a)})

\* the same over the whole manifest, zero when it is empty
LongestChain(repos) ==
    IF repos = <<>> THEN 0
    ELSE Max({ChainFrom(repos, a) : a \in DOMAIN repos})

(***************************************************************************)
(* C37.  On an acyclic manifest resolve_build_levels returns no empty      *)
(* level, and as many levels as there are repositories on the longest      *)
(* chain of resolvable dependencies: none for the empty manifest.          *)
(***************************************************************************)
C37_LevelsCountLongestChain ==
    (out.fn = "resolve_build_levels" /\ Acyclic(manifest)) =>
        /\ out.val.ok
        /\ \A l \in DOMAIN out.val.levels : out.val.levels[l] # <<>>
        /\ Len(out.val.levels) = LongestChain(manifest)
        /\ manifest = <<>> => out.val.levels = <<>>

\* three levels for a chain of three repositories, whose names are not in
\* the order of the chain and one of which names an unknown dependency too
C37_Witness ==
    /\ out.fn = "resolve_build_levels"
    /\ out.val.ok
    /\ Len(out.val.levels) = 3
    /\ LongestChain(manifest) = 3
    /\ 2 \in DepsOf(manifest, 1)
    /\ \E a \in DOMAIN manifest : Ghost \in Range(manifest[a].depends_on)

\* the repositories a call with these arguments is about: the target and
\* what it reaches in the graph, or every repository when there is no target
Scope == IF args.repo_name = None THEN DOMAIN manifest ELSE TargetClosure

\* the entries of the report of a call where every command succeeds, from
\* the manifest and the arguments alone, whatever the engine
PassingEntries ==
    {BuildResult(BuildName(r), TRUE, "stdout") : r \in Scope}
        \cup (IF args.run_tests
              THEN {BuildResult(TestName(r), TRUE, "stdout") : r \in Scope}
              ELSE {})

(***************************************************************************)
(* C38.  On an acyclic manifest, with no target or a target that is a      *)
(* repository of it, when every clean, build and test command succeeds,    *)
(* build and build_parallel return reports with the same set of entries    *)
(* and all_passed true, under every interleaving of the threads: each      *)
(* engine returns the entries, all successful, that the manifest and the   *)
(* arguments fix, each of them once.                                       *)
(***************************************************************************)
C38_EnginesAgreeWhenAllPass ==
    (Acyclic(manifest) /\ TargetExists /\ NoCommandFailed /\ Returned) =>
        /\ ret.tag = "Ok"
        /\ ret.all_passed
        /\ Range(ret.results) = PassingEntries
        /\ Len(ret.results) = Cardinality(PassingEntries)

\* build_parallel has returned a passing report of a scoped build with
\* clean and tests where the results of two siblings interleave, so that
\* its entries are not in the order the sequential engine gives them
C38_Witness ==
    /\ Returned
    /\ args.parallel
    /\ args.repo_name # None
    /\ TargetExists
    /\ args.run_tests
    /\ args.clean_first
    /\ NoCommandFailed
    /\ ret.tag = "Ok"
    /\ ret.all_passed
    /\ Range(ret.results) = PassingEntries
    /\ \E a, b \in DOMAIN manifest :
          \E p, q, s \in DOMAIN ret.results :
              /\ p < q /\ q < s
              /\ ret.results[p].repo_name = BuildName(a)
              /\ ret.results[q].repo_name = BuildName(b)
              /\ ret.results[s].repo_name = TestName(a)

\* the levels lvls of repos, each level as the set of the names in it
LevelNames(repos, lvls) ==
    [l \in DOMAIN lvls |-> {repos[k].name : k \in Range(lvls[l])}]

\* the full-graph levels after the filter of lines 211-218, level by level
FilteredLevels ==
    LevelNames(manifest, [l \in DOMAIN levels |-> repos_in_level(levels[l])])

\* the manifest restricted to the target and what collect_deps returned
Restricted ==
    SelectSeq(manifest, LAMBDA rc : rc.name \in target_repos.names)

\* the levels resolve_build_levels gives for the restricted manifest
RestrictedLevels ==
    LevelNames(Restricted, resolve_build_levels(Restricted).levels)

\* build_parallel is past the resolution of the levels of an acyclic
\* manifest, scoped to a target that is a repository of it
ScopedLevelsResolved ==
    /\ args.parallel
    /\ pc = "par"
    /\ i = 1
    /\ args.repo_name # None
    /\ TargetExists

(***************************************************************************)
(* C39 (as claimed).  For an acyclic manifest and a target T in it, the    *)
(* full-graph levels filtered down to T and collect_deps(T) are, level     *)
(* index by level index, the levels resolve_build_levels gives for the     *)
(* manifest restricted to that set (a level being the set of repositories  *)
(* that run together).                                                     *)
(***************************************************************************)
C39_FilteredIsRestrictedAsClaimed ==
    ScopedLevelsResolved => FilteredLevels = RestrictedLevels

(***************************************************************************)
(* C39 (amended).  The filtered full-graph levels start with the levels of *)
(* the restricted manifest, index by index, and every filtered level after *)
(* them is empty (the level of the target is the last that is not): so a   *)
(* repository of the scope runs in the level the restricted manifest gives *)
(* it, and the filter yields more levels than the restricted manifest has  *)
(* when the target is not on a longest chain of the full graph.            *)
(***************************************************************************)
C39_FilteredStartsWithRestricted ==
    ScopedLevelsResolved =>
        /\ Len(RestrictedLevels) <= Len(FilteredLevels)
        /\ \A l \in DOMAIN FilteredLevels :
              FilteredLevels[l] = IF l <= Len(RestrictedLevels)
                                  THEN RestrictedLevels[l]
                                  ELSE {}
        /\ \A l \in DOMAIN RestrictedLevels : RestrictedLevels[l] # {}

\* a repository outside the scope depends on the target, which has a
\* dependency: two levels for the restricted manifest, a third, empty one
\* after the filter
C39_Witness ==
    /\ ScopedLevelsResolved
    /\ Len(RestrictedLevels) = 2
    /\ Len(FilteredLevels) = 3
    /\ FilteredLevels[3] = {}
    /\ \E z \in DOMAIN manifest :
          find_repo(manifest, args.repo_name) \in DepsOf(manifest, z)

(***************************************************************************)
(* C40 (as claimed).  build_parallel always returns a report.              *)
(***************************************************************************)
C40_ReturnsAReportAsClaimed ==
    Returned => ret.tag = "Ok"

(***************************************************************************)
(* C40 (amended).  Every spawned command exiting in the end, a call of     *)
(* build_parallel terminates: it returns the cycle error when the graph    *)
(* has a cycle and a report otherwise.  No thread holds the guard of the   *)
(* flag and the guard of the results at a time, and no guard is held by    *)
(* two threads; the threads of a level are given up only when each of them *)
(* has ended, and none is left when the call returns.  No state is a       *)
(* deadlock: from a state where no step is possible and the call has not   *)
(* returned, the behaviour that stays there for ever is fair and never     *)
(* returns, against the first conjunct.                                    *)
(***************************************************************************)
C40_TerminatesWithoutDeadlock ==
    /\ <>Returned
    /\ [](Returned =>
             /\ ret = IF Acyclic(manifest)
                      THEN BuildReport(results) ELSE Error("Cycle")
             /\ workers = <<>>)
    /\ [](\A r \in DOMAIN workers :
             /\ Cardinality(workers[r].holds) <= 1
             /\ \A q \in DOMAIN workers :
                   q # r => workers[r].holds \cap workers[q].holds = {})
    /\ [][workers' # workers /\ workers' = <<>> =>
             \A r \in DOMAIN workers :
                 workers[r].pc = "done" /\ workers[r].holds = {}]_vars

\* the call has returned a report after two threads of one level both
\* recorded a failed test: each took the guard of the results twice and the
\* guard of the flag twice, and both were joined
C40_Witness ==
    /\ Returned
    /\ ret.tag = "Ok"
    /\ workers = <<>>
    /\ failed
    /\ \E a, b \in DOMAIN manifest :
          /\ a # b
          /\ HasFailure(ret.results, TestName(a))
          /\ HasFailure(ret.results, TestName(b))

=============================================================================
